---- MODULE Spec2Model ----
(***************************************************************************)
(* Model of the sdworx calendar tools: sdworx_calendar_merger.py (variant   *)
(* "merger") and sdworx_calendar_expender.py (variant "expender").  Both    *)
(* read a calendar, stage its events sorted by owner, category and date,    *)
(* then run the merge pass that folds adjacent events into one accumulator. *)
(*                                                                          *)
(* Texts (SUMMARY, DESCRIPTION) are sequences of tokens joined by single    *)
(* spaces.  A token is a word, a parenthesised category "(remote)", an hour *)
(* tag "(Nh)" or a day tag "(Nd)"; field c is its letter case: "l" as       *)
(* typed in lower case, "T" title-cased, "U" upper case.                    *)
(* Dates are the YYYYMMDD strings of the files, held as the number their    *)
(* digits spell; 0 stands for an absent DTEND.                              *)
(***************************************************************************)
EXTENDS Integers, Sequences, FiniteSets, TLC

VARIABLES variant, pc, owners, cal_in, cal_tmp, pos, prev_event, cal_out,
          prev_src, out_src, stage_err

vars == <<variant, pc, owners, cal_in, cal_tmp, pos, prev_event, cal_out,
          prev_src, out_src, stage_err>>

\* ------------------------------------------------------------------ bounds
MaxEvents == 3
MaxSpanDays == 2

\* ------------------------------------------------------- program constants
MONDAY == 0
FRIDAY == 4

DATE_START == "DTSTART"
DATE_END == "DTEND"
ORIG_DATE_START == "ORIGDTSTART"
ORIG_DATE_END == "ORIGDTEND"
DESC == "DESCRIPTION"
SUMMARY == "SUMMARY"
EXTRA == "__EXTRA__"
END == "END"

\* ------------------------------------------------------------------- dates
IsLeap(y) == (y % 4 = 0) /\ ((y % 100 # 0) \/ (y % 400 = 0))

DaysInMonth(y, m) ==
    IF m = 2 THEN (IF IsLeap(y) THEN 29 ELSE 28)
    ELSE IF m \in {4, 6, 9, 11} THEN 30 ELSE 31

DaysBeforeYear(y) ==
    (y - 1) * 365 + ((y - 1) \div 4) - ((y - 1) \div 100) + ((y - 1) \div 400)

RECURSIVE DaysBeforeMonth(_, _)
DaysBeforeMonth(y, m) ==
    IF m = 1 THEN 0 ELSE DaysBeforeMonth(y, m - 1) + DaysInMonth(y, m - 1)

\* the years a date of the model can fall in
Years == 2022..2024

\* strptime(value, "%Y%m%d"): the proleptic Gregorian ordinal of the date
str_to_date(value) ==
    LET y == value \div 10000
        m == (value \div 100) % 100
        d == value % 100
    IN  DaysBeforeYear(y) + DaysBeforeMonth(y, m) + d

\* strftime("%Y%m%d") of the date with ordinal n
date_to_str(n) ==
    LET y == CHOOSE yy \in Years :
                 DaysBeforeYear(yy) < n /\ n <= DaysBeforeYear(yy + 1)
        r == n - DaysBeforeYear(y)
        m == CHOOSE mm \in 1..12 :
                 DaysBeforeMonth(y, mm) < r
                 /\ r <= DaysBeforeMonth(y, mm) + DaysInMonth(y, mm)
    IN  y * 10000 + m * 100 + (r - DaysBeforeMonth(y, m))

date_next_day_str(value) == date_to_str(str_to_date(value) + 1)

date_prev_day_str(value) == date_to_str(str_to_date(value) - 1)

\* datetime.weekday(): Monday is 0, Sunday is 6
get_weekday(value) == (str_to_date(value) + 6) % 7

\* mutant: ">=" for "==" in the Monday test
is_start_week_from_monday(value) ==
    LET weekday == get_weekday(value)
    IN  weekday >= MONDAY \/ weekday > FRIDAY

is_start_week(value) ==
    LET weekday == get_weekday(value)
    IN  weekday = MONDAY \/ weekday > FRIDAY

is_end_week(value) == get_weekday(value) >= FRIDAY

get_diff_date(prev_value, new_value) ==
    str_to_date(new_value) - str_to_date(prev_value)

\* mutant: two weeks for one
is_less_a_week_fortnight(prev_value, new_value) ==
    get_diff_date(prev_value, new_value) < 14

is_less_a_week(prev_value, new_value) ==
    get_diff_date(prev_value, new_value) < 7

\* ---------------------------------------------------------------- instants
\* An instant is a "YYYYMMDDTHH0000Z" value: a date and a whole hour, UTC.
Instant(date, hour) == [date |-> date, hour |-> hour]

\* hours from UTC to Europe/Brussels on the dates of the model (winter time)
BRUSSELS == 1

\* str_to_date_full: the ordinal of the day and the hour, Brussels time
str_to_date_full(value) ==
    [day |-> str_to_date(value.date) + ((value.hour + BRUSSELS) \div 24),
     hour |-> (value.hour + BRUSSELS) % 24]

\* date[:8]
date_remove_time(value) == value.date

\* ------------------------------------------------------------------- texts
Word(w) == [k |-> "w", w |-> w, n |-> 0, c |-> "l"]
Upper(w) == [k |-> "w", w |-> w, n |-> 0, c |-> "U"]
Paren(w) == [k |-> "p", w |-> w, n |-> 0, c |-> "l"]
HourTag(n) == [k |-> "h", w |-> "", n |-> n, c |-> "l"]
DayTag(n) == [k |-> "d", w |-> "", n |-> n, c |-> "l"]

\* the "?" that clean_event sticks to the end of a SUMMARY
Mark == [k |-> "q", w |-> "?", n |-> 0, c |-> "l"]

\* the " hours: N" that clean_event adds to a DESCRIPTION
HoursNote(n) == [k |-> "x", w |-> "hours:", n |-> n, c |-> "l"]

\* \([0-9]+h\) and \([0-9]+d\) match lower-case tags with an unsigned number
IsHourTag(t) == t.k = "h" /\ t.c = "l" /\ t.n >= 0
IsDayTag(t) == t.k = "d" /\ t.c = "l" /\ t.n >= 0

\* "^[AP]M ": an upper-case AM or PM first word followed by a space
HasHalfDayMarker(text) ==
    /\ Len(text) > 1
    /\ text[1].k = "w" /\ text[1].c = "U" /\ text[1].w \in {"am", "pm"}

\* str.title()
title(text) == [i \in 1..Len(text) |-> [text[i] EXCEPT !.c = "T"]]

\* str.lower()
lower(text) == [i \in 1..Len(text) |-> [text[i] EXCEPT !.c = "l"]]

beautify(value) ==
    LET t == title(value)
    IN  IF Len(t) > 1 /\ t[1].k = "w" /\ t[1].w \in {"am", "pm"}
        THEN [t EXCEPT ![1].c = "U"]
        ELSE t

\* positions of the tokens a pattern with a leading space can match
SpacedTags(text, kinds) ==
    {i \in 2..Len(text) :
        (("h" \in kinds) /\ IsHourTag(text[i]))
        \/ (("d" \in kinds) /\ IsDayTag(text[i]))}

RECURSIVE Remove(_, _)
Remove(text, idx) ==
    IF text = <<>> THEN <<>>
    ELSE LET rest == Remove(Tail(text), {i - 1 : i \in idx \ {1}})
         IN  IF 1 \in idx THEN rest ELSE <<Head(text)>> \o rest

\* re.sub(r'\([0-9]+h\)', '(' + str(hours) + 'h)', text)
replaced_time_key(text, hours) ==
    [i \in 1..Len(text) |->
        IF IsHourTag(text[i]) THEN HourTag(hours) ELSE text[i]]

\* replace every ' (Nh)' / ' (Nd)' by ' (<days>d)', or append it
replace_day_key(text, days) ==
    LET hit == SpacedTags(text, {"h", "d"})
    IN  IF hit # {}
        THEN [i \in 1..Len(text) |-> IF i \in hit THEN DayTag(days) ELSE text[i]]
        ELSE Append(text, DayTag(days))

Max(a, b) == IF a >= b THEN a ELSE b

\* re.findall(r'\(([0-9]+)' + key + '\)', value): first number, at least 1
get_num_parenthesis(value, key) ==
    LET hit == {i \in 1..Len(value) :
                   IF key = "h" THEN IsHourTag(value[i]) ELSE IsDayTag(value[i])}
    IN  IF hit # {}
        THEN Max(1, value[CHOOSE i \in hit : \A j \in hit : i <= j].n)
        ELSE 0

get_hours(value) == get_num_parenthesis(value, "h")

get_days(value) == get_num_parenthesis(value, "d")

\* ------------------------------------------------------------------ events
\* An event is the OrderedDict of one VEVENT block: order lists its keys in
\* insertion order; extra is the __EXTRA__ list; desc_extra holds the notes
\* print_dict has appended to DESCRIPTION.
HasKey(event, key) == \E i \in 1..Len(event.order) : event.order[i] = key

\* mutant: the key stays where it is
move_to_end_stays(order, key) == order

\* OrderedDict.move_to_end(key)
move_to_end(order, key) ==
    Remove(order, {i \in 1..Len(order) : order[i] = key}) \o <<key>>

\* event[key] = value, as far as the key order goes
set_key(order, key) ==
    IF \E i \in 1..Len(order) : order[i] = key THEN order ELSE Append(order, key)

Note(what, desc, nb) == [what |-> what, desc |-> desc, nb |-> nb]

get_date_str(event) == event.start

get_date_date(event) == str_to_date(get_date_str(event))

\* int(get_date_str(event)): the number the eight digits spell
get_date(event) == get_date_str(event)

get_last_date_str_merger(event) ==
    IF HasKey(event, DATE_END)
    THEN date_prev_day_str(event.end)
    ELSE get_date_str(event)

get_last_date_str_expender(event) ==
    IF HasKey(event, DATE_END) THEN event.end ELSE get_date_str(event)

get_last_date_str(v, event) ==
    IF v = "merger"
    THEN get_last_date_str_merger(event)
    ELSE get_last_date_str_expender(event)

get_last_date_after_date(event) ==
    str_to_date(date_next_day_str(get_last_date_str_merger(event)))

is_same_date(v, prev, new) ==
    get_last_date_str(v, prev) = get_date_str(new)

is_next_date(v, prev, new) ==
    LET prev_date == get_last_date_str(v, prev)
        new_date == get_date_str(new)
    IN  IF date_next_day_str(prev_date) = new_date THEN TRUE
        ELSE IF is_less_a_week(prev_date, new_date)
                /\ is_end_week(prev_date) /\ is_start_week(new_date)
        THEN TRUE
        ELSE FALSE

get_time_merger(event) ==
    LET hours == get_hours(event.summary)
        days == get_days(event.summary)
    IN  IF hours # 0 THEN hours
        ELSE IF days # 0 THEN days * 8
        ELSE IF HasHalfDayMarker(event.summary) THEN 4
        ELSE 8

get_time_expender(event) ==
    LET times == {i \in 1..Len(event.desc) : IsHourTag(event.desc[i])}
        days == {i \in 1..Len(event.desc) : IsDayTag(event.desc[i])}
    IN  IF times # {}
        THEN Max(1, event.desc[CHOOSE i \in times : \A j \in times : i <= j].n)
        ELSE IF days # {}
        THEN event.desc[CHOOSE i \in days : \A j \in days : i <= j].n * 8
        ELSE IF HasHalfDayMarker(event.summary) THEN 4
        ELSE 8

get_time(v, event) ==
    IF v = "merger" THEN get_time_merger(event) ELSE get_time_expender(event)

is_full_day(v, event) == get_time(v, event) >= 7

\* mutant: the list is started anew on every call
add_extra_overwrites(event, what, extra, nb) ==
    [event EXCEPT
        !.extra = <<Note(what, extra, nb)>>,
        !.order = move_to_end(set_key(@, EXTRA), END)]

add_extra(event, what, extra, nb) ==
    [event EXCEPT
        !.extra = Append(@, Note(what, extra, nb)),
        !.order = move_to_end(set_key(@, EXTRA), END)]

\* returns the accumulator with its SUMMARY hour tag rewritten
replaced_time_str(v, prev, new) ==
    LET new_time == get_time(v, new)
        hours == get_time(v, prev) + new_time
    IN  [prev EXCEPT !.summary = replaced_time_key(@, hours)]

replace_day_str_merger(prev, new) ==
    LET delta == get_last_date_after_date(new) - get_date_date(prev)
    IN  [prev EXCEPT !.summary = replace_day_key(@, delta)]

replace_day_str_expender(prev, new) ==
    LET delta == get_date_date(new) - get_date_date(prev)
        days == delta + 1
    IN  [prev EXCEPT !.summary = replace_day_key(@, days)]

add_time(v, prev, new) ==
    add_extra(replaced_time_str(v, prev, new), "add time", new.desc,
              get_time(v, new))

merge_event_merger(prev, new) ==
    LET moved == [prev EXCEPT !.end = new.end,
                              !.order = set_key(@, DATE_END)]
    IN  add_extra(replace_day_str_merger(moved, new), "add date", new.desc,
                  get_date_str(new))

merge_event_expender(prev, new) ==
    LET moved == [prev EXCEPT !.end = get_date_str(new),
                              !.order = set_key(@, DATE_END)]
    IN  add_extra(replace_day_str_expender(moved, new), "add date", new.desc,
                  get_date_str(new))

merge_event(v, prev, new) ==
    IF v = "merger"
    THEN merge_event_merger(prev, new)
    ELSE merge_event_expender(prev, new)

\* without the time, and lower
get_desc_merger(event) ==
    lower(Remove(event.desc, SpacedTags(event.desc, {"h", "d"})))

\* without the time
get_desc_expender(event) == Remove(event.desc, SpacedTags(event.desc, {"h"}))

get_desc(v, event) ==
    IF v = "merger" THEN get_desc_merger(event) ELSE get_desc_expender(event)

is_same_desc(v, prev, new) == get_desc(v, prev) = get_desc(v, new)

\* ------------------------------------------------------ owner and category
IsParen(t) == t.k \in {"p", "h", "d"}

\* re.sub(r' \(.+\)\?*', '', value), greedy: from the first " (" to the last
\* ")" and the "?" after it (the expander's pattern has no "?", and its
\* SUMMARYs none); then the leading AM/PM marker goes, and the rest is
\* lower-cased
get_owner(value) ==
    LET opens == {i \in 2..Len(value) : IsParen(value[i])}
        first == CHOOSE i \in opens : \A j \in opens : i <= j
        closes == {i \in 1..Len(value) : IsParen(value[i])}
        last == CHOOSE i \in closes : \A j \in closes : i >= j
        marks == {i \in 1..Len(value) :
                     i > last /\ \A j \in (last + 1)..i : value[j] = Mark}
        cut == IF opens = {} THEN value
               ELSE Remove(value, (first..last) \cup marks)
        bare == IF HasHalfDayMarker(cut) THEN Tail(cut) ELSE cut
    IN  lower(bare)

\* the first parenthesised group that starts with a letter, else "off"
get_category(value) ==
    LET cats == {i \in 1..Len(value) : value[i].k = "p"}
    IN  IF cats # {}
        THEN value[CHOOSE i \in cats : \A j \in cats : i <= j].w
        ELSE "off"

\* the words of the model in the order Python sorts their strings
Lexicon == <<"alice", "am", "bob", "leave", "off", "pm", "remote", "task">>

WordRank(w) == CHOOSE i \in 1..Len(Lexicon) : Lexicon[i] = w

RECURSIVE TextLess(_, _)
TextLess(a, b) ==
    IF b = <<>> THEN FALSE
    ELSE IF a = <<>> THEN TRUE
    ELSE IF WordRank(Head(a).w) # WordRank(Head(b).w)
    THEN WordRank(Head(a).w) < WordRank(Head(b).w)
    ELSE TextLess(Tail(a), Tail(b))

\* (owner, cat, date) of a before that of b in sorted() order
KeyLess(a, b) ==
    LET oa == get_owner(a.summary)
        ob == get_owner(b.summary)
        ca == WordRank(get_category(a.summary))
        cb == WordRank(get_category(b.summary))
    IN  IF oa # ob THEN TextLess(oa, ob)
        ELSE IF ca # cb THEN ca < cb
        ELSE get_date(a) < get_date(b)

\* where owners[owner][cat][date].append(event) puts the event in the order
\* print_all walks the index: after every event whose key is not greater
InsertAt(staged, event) ==
    1 + Cardinality({i \in 1..Len(staged) : ~KeyLess(event, staged[i])})

Insert(seq, at, x) ==
    [i \in 1..(Len(seq) + 1) |->
        IF i < at THEN seq[i] ELSE IF i = at THEN x ELSE seq[i - 1]]

\* the staged events in the order print_all writes them
print_all(staged) == staged

\* --------------------------------------------------------------- normalizer
\* mutant: the hour tag of a full day is left as it is
clean_event_keeps_hours(event) ==
    IF ~HasKey(event, DATE_END)
    THEN [event EXCEPT
             !.end = date_next_day_str(event.start),
             !.order = move_to_end(set_key(@, DATE_END), END)]
    ELSE event

\* clean_event, "if exact_start and exact_end": the duration of an event
\* that came with instants
clean_exact(event, exact_start, exact_end) ==
    LET delta == (exact_end.day - exact_start.day) * 24
                 + exact_end.hour - exact_start.hour
        full == (delta % 24) >= 7
        days == IF full THEN (delta \div 24) + 1 ELSE delta \div 24
        hours == IF full /\ ~((delta % 24) > 9) THEN 0 ELSE delta % 24
    IN  IF days > 0
        THEN IF hours > 0
             THEN [event EXCEPT
                      !.summary = replace_day_key(Append(@, Mark), days + 1),
                      !.desc = replace_day_key(Append(@, HoursNote(hours)),
                                               days + 1)]
             ELSE [event EXCEPT
                      !.summary = replace_day_key(@, days),
                      !.desc = replace_day_key(@, days)]
        ELSE LET half == IF exact_start.hour < 12 THEN "am" ELSE "pm"
             IN  [event EXCEPT
                     !.summary = replaced_time_key(
                                     IF hours <= 4 THEN <<Upper(half)>> \o @
                                                   ELSE @,
                                     hours),
                     !.desc = replaced_time_key(@, hours)]

\* clean_event: DTEND is added when absent, the instants are popped, and the
\* duration tags are set from the instants or, without them, a SUMMARY hour
\* tag of 7 or more becomes (1d)
clean_event(event) ==
    LET dated == IF ~HasKey(event, DATE_END)
                 THEN [event EXCEPT
                          !.end = date_next_day_str(event.start),
                          !.order = move_to_end(set_key(@, DATE_END), END)]
                 ELSE event
        popped == [order |-> Remove(dated.order,
                                    {i \in 1..Len(dated.order) :
                                        dated.order[i] \in {ORIG_DATE_START,
                                                            ORIG_DATE_END}}),
                   start |-> dated.start, end |-> dated.end,
                   summary |-> dated.summary, desc |-> dated.desc,
                   extra |-> dated.extra, desc_extra |-> dated.desc_extra]
    IN  IF HasKey(event, ORIG_DATE_START) /\ HasKey(event, ORIG_DATE_END)
        THEN clean_exact(popped, str_to_date_full(event.orig_start),
                         str_to_date_full(event.orig_end))
        ELSE IF get_hours(popped.summary) >= 7
        THEN [popped EXCEPT !.summary = replace_day_key(@, 1)]
        ELSE popped

\* ---------------------------------------------------------------- emission
\* print_dict returns the event as print_dict leaves it, the event as its
\* lines were written, and whether "Error: END is not at the end" was printed
\* after them
FlattenExtra(event) ==
    IF HasKey(event, EXTRA)
    THEN [event EXCEPT
             !.desc_extra = @ \o event.extra,
             !.extra = <<>>,
             !.order = Remove(@, {i \in 1..Len(@) : @[i] = EXTRA})]
    ELSE event

Written(event, end) ==
    [event EXCEPT
        !.end = end,
        !.summary = beautify(@),
        !.desc = beautify(@),
        !.desc_extra = [i \in 1..Len(@) |-> [@[i] EXCEPT !.desc = title(@)]]]

print_dict_merger(event) ==
    LET flat == FlattenExtra(event)
    IN  [event |-> flat, lines |-> Written(flat, flat.end),
         error |-> flat.order[Len(flat.order)] # END]

print_dict_expender(event) ==
    LET flat == FlattenExtra(event)
        dated == IF ~HasKey(flat, DATE_END)
                 THEN [flat EXCEPT
                          !.end = flat.start,
                          !.order = move_to_end(set_key(@, DATE_END), END)]
                 ELSE flat
    IN  [event |-> dated, lines |-> Written(dated, date_next_day_str(dated.end)),
         error |-> dated.order[Len(dated.order)] # END]

print_dict(v, event) ==
    IF v = "merger" THEN print_dict_merger(event) ELSE print_dict_expender(event)

\* ------------------------------------------------------------------ inputs
Event(start, end, summary, desc) ==
    [order |-> IF end = 0
               THEN <<"BEGIN", DATE_START, SUMMARY, DESC, END>>
               ELSE <<"BEGIN", DATE_START, DATE_END, SUMMARY, DESC, END>>,
     start |-> start, end |-> end, summary |-> summary, desc |-> desc,
     extra |-> <<>>, desc_extra |-> <<>>]

\* whole-day events of alice, "task": Fri 27, Sun 29, Mon 30, Tue 31 Jan 2023,
\* Wed 1, Thu 2, Sat 4, Mon 6 Feb 2023
PlainDays == {20230127, 20230129, 20230130, 20230131, 20230201, 20230202,
              20230204, 20230206}

PlainEvents ==
    {Event(d, 0, <<Word("alice")>>, <<Word("task")>>) : d \in PlainDays}

\* events that arrive with a DTEND
EndedEvents ==
    {Event(20230127, 20230128, <<Word("alice")>>, <<Word("task")>>),
     Event(20230131, 20230202, <<Word("alice")>>, <<Word("task")>>)}

\* events with a logged duration
TimedEvents ==
    {Event(20230131, 0, <<Upper("am"), Word("alice")>>, <<Word("task")>>),
     Event(20230131, 0, <<Word("alice"), HourTag(2)>>, <<Word("task"), HourTag(2)>>),
     Event(20230131, 0, <<Word("alice"), HourTag(3)>>, <<Word("task"), HourTag(3)>>),
     Event(20230131, 0, <<Word("alice"), HourTag(8)>>, <<Word("task"), HourTag(8)>>),
     Event(20230130, 0, <<Word("alice"), HourTag(8)>>, <<Word("task"), HourTag(8)>>),
     Event(20230201, 0, <<Word("alice"), HourTag(3)>>, <<Word("task"), HourTag(3)>>),
     Event(20230131, 0, <<Word("alice"), DayTag(1)>>, <<Word("task"), DayTag(1)>>)}

\* another activity, and the same activity typed in another case
OtherEvents ==
    {Event(20230131, 0, <<Word("alice")>>, <<Word("leave")>>),
     Event(20230131, 0, <<Word("alice")>>, <<[Word("task") EXCEPT !.c = "T"]>>)}

\* another owner, another category
GroupEvents ==
    {Event(20230130, 0, <<Word("bob")>>, <<Word("task")>>),
     Event(20230131, 0, <<Word("bob")>>, <<Word("task")>>),
     Event(20230130, 0, <<Word("alice"), Paren("remote")>>, <<Word("task")>>),
     Event(20230131, 0, <<Word("alice"), Paren("remote")>>, <<Word("task")>>)}

InputEvents ==
    PlainEvents \cup EndedEvents \cup TimedEvents \cup OtherEvents
    \cup GroupEvents

\* an event block whose DTSTART and DTEND lines hold instants, as the staging
\* loop has it at END:VEVENT: the instants are kept under the ORIG keys, DTSTART
\* is the day of the first and DTEND the day after the day of the second
ExactEvent(from, to, summary, desc) ==
    [order |-> <<"BEGIN", ORIG_DATE_START, DATE_START, ORIG_DATE_END, DATE_END,
                 SUMMARY, DESC, END>>,
     start |-> date_remove_time(from),
     end |-> date_next_day_str(date_remove_time(to)),
     summary |-> summary, desc |-> desc, extra |-> <<>>, desc_extra |-> <<>>,
     orig_start |-> from, orig_end |-> to]

\* the instant span hours after the instant from
Later(from, span) ==
    Instant(date_to_str(str_to_date(from.date) + ((from.hour + span) \div 24)),
            (from.hour + span) % 24)

\* events from 07:00Z or 12:00Z on Mon 30 Jan 2023 that last up to MaxSpanDays
\* days and 23 hours, with and without an hour tag in their texts
ExactEvents ==
    {ExactEvent(Instant(20230130, at), Later(Instant(20230130, at), 24 * d + h),
                texts[1], texts[2]) :
        at \in {7, 12}, d \in 0..MaxSpanDays, h \in 0..23,
        texts \in {<<<<Word("alice")>>, <<Word("task")>>>>,
                   <<<<Word("alice"), HourTag(2)>>, <<Word("task"), HourTag(2)>>>>}}

\* ------------------------------------------------------------------- state
Init ==
    /\ variant \in {"merger", "expender"}
    /\ pc = "stage"
    /\ owners = <<>>
    /\ cal_in = <<>>
    /\ cal_tmp = <<>>
    /\ pos = 0
    /\ prev_event = <<>>
    /\ cal_out = <<>>
    /\ prev_src = <<>>
    /\ out_src = <<>>
    /\ stage_err = "none"

\* staging pass, END:VEVENT: the event is normalised (merger) and indexed
Stage(inputs) ==
    /\ pc = "stage"
    /\ Len(owners) < MaxEvents
    /\ \E raw \in inputs :
          LET event == IF variant = "merger" THEN clean_event(raw) ELSE raw
              at == InsertAt(owners, event)
          IN  /\ owners' = Insert(owners, at, event)
              /\ cal_in' = Insert(cal_in, at, raw)
    /\ stage_err' = IF stage_err = "open" THEN "met" ELSE stage_err
    /\ UNCHANGED <<variant, pc, cal_tmp, pos, prev_event, cal_out, prev_src,
                   out_src>>

StageEvent == Stage(InputEvents)

\* staging pass, END:x with x other than VEVENT as the last line before the
\* END:VEVENT of the block being read: "Error: " is printed and the loop goes
\* on; event[END] is overwritten by the END:VEVENT line that follows.
\* stage_err is "open" until that block is staged, "met" after it.
StageUnexpectedEnd ==
    /\ pc = "stage"
    /\ Len(owners) < MaxEvents
    /\ stage_err # "open"
    /\ stage_err' = "open"
    /\ UNCHANGED <<variant, pc, owners, cal_in, cal_tmp, pos, prev_event,
                   cal_out, prev_src, out_src>>

\* staging pass, END:VCALENDAR: the index is written to the scratch file
StageEnd ==
    /\ pc = "stage"
    /\ stage_err # "open"
    /\ cal_tmp' = print_all(owners)
    /\ pc' = "merge"
    /\ pos' = 1
    /\ UNCHANGED <<variant, owners, cal_in, prev_event, cal_out, prev_src,
                   out_src, stage_err>>

InMerge == pc = "merge" /\ pos <= Len(cal_tmp)

\* merge pass, END:VEVENT with no accumulator yet
StartFirst ==
    /\ InMerge
    /\ prev_event = <<>>
    /\ prev_event' = <<cal_tmp[pos]>>
    /\ prev_src' = <<[i |-> pos, how |-> "start"]>>
    /\ pos' = pos + 1
    /\ UNCHANGED <<variant, pc, owners, cal_in, cal_tmp, cal_out, out_src,
                   stage_err>>

\* merge pass, END:VEVENT: same description on the accumulator's last date
AddTime ==
    /\ InMerge
    /\ prev_event # <<>>
    /\ is_same_desc(variant, prev_event[1], cal_tmp[pos])
    /\ is_same_date(variant, prev_event[1], cal_tmp[pos])
    /\ prev_event' = <<add_time(variant, prev_event[1], cal_tmp[pos])>>
    /\ prev_src' = Append(prev_src, [i |-> pos, how |-> "time"])
    /\ pos' = pos + 1
    /\ UNCHANGED <<variant, pc, owners, cal_in, cal_tmp, cal_out, out_src,
                   stage_err>>

\* mutant: the incoming event is not tested
CanExtend_any_incoming(v, prev, new) ==
    /\ is_full_day(v, prev)
    /\ is_next_date(v, prev, new)

\* the test of the elif that guards merge_event
CanExtend(v, prev, new) ==
    /\ is_full_day(v, prev)
    /\ is_next_date(v, prev, new)
    /\ (v = "merger" => is_full_day(v, new))

\* merge pass, END:VEVENT: same description on the next eligible date
DateExtend ==
    /\ InMerge
    /\ prev_event # <<>>
    /\ is_same_desc(variant, prev_event[1], cal_tmp[pos])
    /\ ~is_same_date(variant, prev_event[1], cal_tmp[pos])
    /\ CanExtend(variant, prev_event[1], cal_tmp[pos])
    /\ prev_event' = <<merge_event(variant, prev_event[1], cal_tmp[pos])>>
    /\ prev_src' = Append(prev_src, [i |-> pos, how |-> "date"])
    /\ pos' = pos + 1
    /\ UNCHANGED <<variant, pc, owners, cal_in, cal_tmp, cal_out, out_src,
                   stage_err>>

\* whether the merge pass folds the event into the accumulator
Folds(v, prev, new) ==
    /\ is_same_desc(v, prev, new)
    /\ IF is_same_date(v, prev, new) THEN TRUE ELSE CanExtend(v, prev, new)

\* mutant: the incoming event is written in place of the accumulator
create_event_writes_new(v, prev, new) ==
    [lines |-> print_dict(v, new).lines, event |-> new]

\* create_event: the accumulator is written and replaced by a copy
create_event(v, prev, new) ==
    [lines |-> print_dict(v, prev).lines, event |-> new]

\* merge pass, END:VEVENT: the accumulator is flushed and a new one started
FlushAndStart ==
    /\ InMerge
    /\ prev_event # <<>>
    /\ ~Folds(variant, prev_event[1], cal_tmp[pos])
    /\ LET made == create_event(variant, prev_event[1], cal_tmp[pos])
       IN  /\ cal_out' = Append(cal_out, made.lines)
           /\ prev_event' = <<made.event>>
    /\ out_src' = Append(out_src, prev_src)
    /\ prev_src' = <<[i |-> pos, how |-> "start"]>>
    /\ pos' = pos + 1
    /\ UNCHANGED <<variant, pc, owners, cal_in, cal_tmp, stage_err>>

\* merge pass, END:VCALENDAR: print_dict(prev_event); it raises on None
MergeEnd ==
    /\ pc = "merge"
    /\ pos > Len(cal_tmp)
    /\ IF prev_event = <<>>
       THEN /\ pc' = "error"
            /\ UNCHANGED <<prev_event, cal_out, prev_src, out_src>>
       ELSE /\ pc' = "done"
            /\ cal_out' = Append(cal_out, print_dict(variant, prev_event[1]).lines)
            /\ prev_event' = <<print_dict(variant, prev_event[1]).event>>
            /\ out_src' = Append(out_src, prev_src)
            /\ UNCHANGED prev_src
    /\ UNCHANGED <<variant, owners, cal_in, cal_tmp, pos, stage_err>>

Next ==
    \/ StageEvent
    \/ StageUnexpectedEnd
    \/ StageEnd
    \/ StartFirst
    \/ AddTime
    \/ DateExtend
    \/ FlushAndStart
    \/ MergeEnd

Spec == Init /\ [][Next]_vars

\* ------------------------------------------------- the merge pass as a fold
\* the events the merge pass writes for the staged events from the k-th on,
\* with prev the accumulator (<<>> for None) and out the events written so far
RECURSIVE MergePass(_, _, _, _, _)
MergePass(v, staged, k, prev, out) ==
    IF k > Len(staged)
    THEN IF prev = <<>> THEN out ELSE Append(out, print_dict(v, prev[1]).lines)
    ELSE LET new == staged[k]
         IN  IF prev = <<>>
             THEN MergePass(v, staged, k + 1, <<new>>, out)
             ELSE IF is_same_desc(v, prev[1], new)
                     /\ is_same_date(v, prev[1], new)
             THEN MergePass(v, staged, k + 1, <<add_time(v, prev[1], new)>>, out)
             ELSE IF is_same_desc(v, prev[1], new) /\ CanExtend(v, prev[1], new)
             THEN MergePass(v, staged, k + 1, <<merge_event(v, prev[1], new)>>, out)
             ELSE MergePass(v, staged, k + 1,
                            <<create_event(v, prev[1], new).event>>,
                            Append(out, create_event(v, prev[1], new).lines))

\* ------------------------------------------------ the normalizer alone
\* the merger stages the first event of a calendar, one that came with instants
StageExact ==
    /\ variant = "merger"
    /\ Len(owners) = 0
    /\ Stage(ExactEvents)

SpecClean == Init /\ [][StageExact]_vars

\* ------------------------------------------------------ print_dict alone
\* the event with its END key at place at of its key order
Displaced(event, at) ==
    [event EXCEPT
        !.order = Insert(Remove(@, {i \in 1..Len(@) : @[i] = END}), at, END)]

\* the events print_dict is given: those of the calendar, END at any place
\* after BEGIN
EmitEvents ==
    UNION {{Displaced(e, at) : at \in 2..Len(e.order)} : e \in InputEvents}

EmitInit ==
    /\ variant \in {"merger", "expender"}
    /\ pc = "emit"
    /\ owners = <<>>
    /\ cal_in = <<>>
    /\ cal_tmp = <<>>
    /\ pos = 0
    /\ prev_event \in {<<e>> : e \in EmitEvents}
    /\ cal_out = <<>>
    /\ prev_src = <<>>
    /\ out_src = <<>>
    /\ stage_err = "none"

\* print_dict(prev_event): the lines are written, then the last key is tested
Emit ==
    /\ pc = "emit"
    /\ LET printed == print_dict(variant, prev_event[1])
       IN  /\ cal_out' = Append(cal_out, printed.lines)
           /\ prev_event' = <<printed.event>>
           /\ pc' = IF printed.error THEN "reported" ELSE "done"
    /\ UNCHANGED <<variant, owners, cal_in, cal_tmp, pos, prev_src, out_src,
                   stage_err>>

SpecEmit == EmitInit /\ [][Emit]_vars

\* ----------------------------------------------- vocabulary of the claims
Acc == prev_event[1]

Incoming == cal_tmp[pos]

\* the step folds the incoming event into the accumulator
FoldStep(how) ==
    /\ InMerge
    /\ prev_event # <<>>
    /\ prev_src' = Append(prev_src, [i |-> pos, how |-> how])

\* the step writes the accumulator and starts a new one from the incoming event
FlushStep ==
    /\ InMerge
    /\ prev_event # <<>>
    /\ Len(cal_out') = Len(cal_out) + 1
    /\ cal_out'[Len(cal_out')].start = Acc.start
    /\ prev_event' = <<Incoming>>

\* the duration tags of a text, whatever their case and number
DurationTags(text) ==
    Remove(text, {i \in 1..Len(text) : text[i].k \notin {"h", "d"}})

\* the duration tags of a SUMMARY that the rewriting patterns match
MatchedTags(summary) == {summary[i] : i \in SpacedTags(summary, {"h", "d"})}

\* the hour-equivalents the first duration tag of a SUMMARY states, 0 for none
SummaryDuration(event) ==
    LET tags == DurationTags(event.summary)
    IN  IF tags = <<>> THEN 0
        ELSE IF tags[1].k = "h" THEN tags[1].n ELSE 8 * tags[1].n

Ordinal(date) == str_to_date(date)

\* the END an event would be written with
EmittedEnd(v, event) == print_dict(v, event).lines.end

\* ------------------------------------------------------------------ claims

\* C1 (as stated): a date-extend merge of a full-day incoming event that starts
\* on the day right after the accumulator's last covered date folds it into
\* the accumulator, which keeps its START, is written with END one day past
\* the incoming event's last covered date, and carries as its SUMMARY duration
\* tag the day count from START to that END; in both variants.
C1_DateExtendResult ==
    [][(/\ InMerge
        /\ prev_event # <<>>
        /\ is_same_desc(variant, Acc, Incoming)
        /\ is_full_day(variant, Acc)
        /\ is_full_day(variant, Incoming)
        /\ date_next_day_str(get_last_date_str(variant, Acc)) = Incoming.start)
       => (/\ FoldStep("date")
           /\ cal_out' = cal_out
           /\ prev_event'[1].start = Acc.start
           /\ EmittedEnd(variant, prev_event'[1])
                = date_next_day_str(get_last_date_str(variant, Incoming))
           /\ MatchedTags(prev_event'[1].summary)
                = {DayTag(Ordinal(EmittedEnd(variant, prev_event'[1]))
                          - Ordinal(Acc.start))})]_vars

\* C2 (as stated): every written event has END one day past its last covered
\* day: START + 1 when it arrived without END, its END unchanged when it
\* arrived with one, and the day after the last covered day of the incoming
\* event after a date-extend merge; in both variants.
C2_ExclusiveEnd ==
    \A k \in 1..Len(cal_out) :
        LET src == out_src[k]
            raw == cal_in[src[1].i]
            last == src[Len(src)]
        IN  /\ (Len(src) = 1 /\ raw.end = 0)
                => cal_out[k].end = date_next_day_str(raw.start)
            /\ (Len(src) = 1 /\ raw.end # 0) => cal_out[k].end = raw.end
            /\ last.how = "date"
                => cal_out[k].end
                     = date_next_day_str(get_last_date_str(variant, cal_tmp[last.i]))

RECURSIVE SumTime(_, _, _)
SumTime(v, staged, src) ==
    IF src = <<>> THEN 0
    ELSE get_time(v, staged[Head(src).i]) + SumTime(v, staged, Tail(src))

\* C3 (as stated): an event written after add-time merges only, that is for
\* k >= 2 same-day same-description events, states in its SUMMARY duration
\* tag the sum of the k durations, whatever duration form the accumulator
\* carried before (hour tag, day tag, or none with the 8h/4h default).
C3_AddTimeSum ==
    \A k \in 1..Len(cal_out) :
        (/\ Len(out_src[k]) >= 2
         /\ \A j \in 2..Len(out_src[k]) : out_src[k][j].how = "time")
        => SummaryDuration(cal_out[k]) = SumTime(variant, cal_tmp, out_src[k])

\* two staged events of the same owner, category and single day
SameDayPair(a, b) ==
    /\ a.start = b.start
    /\ get_last_date_str(variant, a) = a.start
    /\ get_last_date_str(variant, b) = b.start
    /\ ~KeyLess(a, b) /\ ~KeyLess(b, a)

\* C4 (as stated): two same-day, same-description events give one written
\* event whose SUMMARY states the same total duration in either feeding order.
C4_AddTimeOrder ==
    (/\ pc = "done"
     /\ Len(cal_tmp) = 2
     /\ SameDayPair(cal_tmp[1], cal_tmp[2])
     /\ is_same_desc(variant, cal_tmp[1], cal_tmp[2]))
    => LET swapped == MergePass(variant, <<cal_tmp[2], cal_tmp[1]>>, 1, <<>>, <<>>)
       IN  /\ Len(cal_out) = 1
           /\ Len(swapped) = 1
           /\ SummaryDuration(cal_out[1]) = SummaryDuration(swapped[1])

\* the incoming event covers its start date only
SingleDay(v, event) == get_last_date_str(v, event) = event.start

\* C5: a full-day accumulator whose last covered date is a Friday, followed by
\* a full-day one-day event the variant reads as the same description: when
\* the event is on the Monday three days later it is folded in, and the
\* accumulator keeps its START, is written with END the Tuesday, and carries
\* the day count from START to Monday as its SUMMARY duration tag ((4d) when
\* it covers that Friday only); when the event is on a Monday seven or more
\* days later the accumulator is written and the event starts a new one.
C5_WeekendBridge ==
    [][(/\ InMerge
        /\ prev_event # <<>>
        /\ is_same_desc(variant, Acc, Incoming)
        /\ is_full_day(variant, Acc)
        /\ is_full_day(variant, Incoming)
        /\ SingleDay(variant, Incoming)
        /\ get_weekday(get_last_date_str(variant, Acc)) = FRIDAY
        /\ get_weekday(Incoming.start) = MONDAY)
       => LET gap == Ordinal(Incoming.start)
                     - Ordinal(get_last_date_str(variant, Acc))
          IN  /\ gap = 3
                 => /\ FoldStep("date")
                    /\ cal_out' = cal_out
                    /\ prev_event'[1].start = Acc.start
                    /\ Ordinal(EmittedEnd(variant, prev_event'[1]))
                         = Ordinal(Incoming.start) + 1
                    /\ MatchedTags(prev_event'[1].summary)
                         = {DayTag(Ordinal(Incoming.start)
                                   - Ordinal(Acc.start) + 1)}
                    /\ SingleDay(variant, Acc)
                         => MatchedTags(prev_event'[1].summary) = {DayTag(4)}
              /\ gap >= 7 => FlushStep]_vars

\* C5 witness: a Friday event and the Monday event three days later have been
\* folded into one accumulator tagged (4d)
C5_Witness ==
    /\ prev_src = <<[i |-> 1, how |-> "start"], [i |-> 2, how |-> "date"]>>
    /\ get_weekday(cal_tmp[1].start) = FRIDAY
    /\ SingleDay(variant, cal_tmp[1])
    /\ Ordinal(cal_tmp[2].start) = Ordinal(cal_tmp[1].start) + 3
    /\ MatchedTags(Acc.summary) = {DayTag(4)}
    /\ Ordinal(EmittedEnd(variant, Acc)) = Ordinal(Acc.start) + 4

\* C6 (as stated): in every date-extend merge the incoming event starts after
\* the accumulator's last covered date and every day strictly between the two
\* is a Saturday or a Sunday.
C6_OnlyWeekendBridged ==
    [][FoldStep("date")
       => LET last == Ordinal(get_last_date_str(variant, Acc))
              start == Ordinal(Incoming.start)
          IN  /\ start > last
              /\ \A d \in (last + 1)..(start - 1) : (d + 6) % 7 > FRIDAY]_vars

\* the weekend bridge of the next-eligible-date rule: less than 7 days from a
\* Friday, Saturday or Sunday to a Saturday, Sunday or Monday
WeekendBridge(last, start) ==
    /\ Ordinal(start) - Ordinal(last) < 7
    /\ (Ordinal(last) + 6) % 7 \in {4, 5, 6}
    /\ (Ordinal(start) + 6) % 7 \in {5, 6, 0}

\* C7: when the incoming event has the accumulator's DESCRIPTION and its start
\* date is neither the accumulator's last covered date, nor the day after it,
\* nor a weekend bridge from it, the accumulator is written and the incoming
\* event starts a new accumulator: two separate events.
C7_NonAdjacentKeptApart ==
    [][(/\ InMerge
        /\ prev_event # <<>>
        /\ Acc.desc = Incoming.desc
        /\ Incoming.start # get_last_date_str(variant, Acc)
        /\ Ordinal(Incoming.start) # Ordinal(get_last_date_str(variant, Acc)) + 1
        /\ ~WeekendBridge(get_last_date_str(variant, Acc), Incoming.start))
       => FlushStep]_vars

\* C7 witness: two events with one description, three days apart (a Monday and
\* the Thursday after it), have been written as two events
C7_Witness ==
    /\ pc = "done"
    /\ Len(cal_tmp) = 2
    /\ cal_tmp[1].desc = cal_tmp[2].desc
    /\ get_weekday(cal_tmp[1].start) = MONDAY
    /\ Ordinal(cal_tmp[2].start) = Ordinal(cal_tmp[1].start) + 3
    /\ Len(cal_out) = 2
    /\ cal_out[1].start = cal_tmp[1].start
    /\ cal_out[2].start = cal_tmp[2].start

\* the key order of an event written alone: DTEND, when it was absent, comes
\* right before the terminator
WrittenOrder(raw) ==
    IF raw.end # 0 THEN raw.order
    ELSE SubSeq(raw.order, 1, Len(raw.order) - 1) \o <<DATE_END, END>>

FullDayAsOneDay(summary) ==
    [i \in 1..Len(summary) |->
        IF summary[i].k = "h" /\ summary[i].n >= 7 THEN DayTag(1) ELSE summary[i]]

RECURSIVE Flat(_)
Flat(seqs) == IF seqs = <<>> THEN <<>> ELSE Head(seqs) \o Flat(Tail(seqs))

\* C9: when the merge pass of a calendar with at least one event is over, it
\* has not failed, the accumulator has been written as the last event, and the
\* staged events, which are all the events read, each went into exactly one
\* written event, in order: the first of them gives the written event its
\* START and DESCRIPTION and each later one a note with its DESCRIPTION.
C9_FlushNoLoss ==
    /\ (pc = "error" => Len(cal_tmp) = 0)
    /\ (pc \in {"merge", "done", "error"}
           => Len(cal_tmp) = Len(cal_in) /\ cal_tmp = owners)
    /\ (pc = "merge" /\ pos > Len(cal_tmp) /\ Len(cal_tmp) > 0
           => prev_event # <<>> /\ Len(cal_out) < Len(cal_tmp))
    /\ (pc = "done"
           => /\ Len(cal_tmp) > 0
              /\ Len(cal_out) = Len(out_src)
              /\ cal_out[Len(cal_out)] = print_dict(variant, Acc).lines
              /\ \A j \in 1..Len(cal_tmp) : Flat(out_src)[j].i = j
              /\ Len(Flat(out_src)) = Len(cal_tmp)
              /\ \A k \in 1..Len(cal_out) :
                    LET src == out_src[k]
                    IN  /\ src[1].how = "start"
                        /\ cal_out[k].start = cal_tmp[src[1].i].start
                        /\ cal_out[k].desc = beautify(cal_tmp[src[1].i].desc)
                        /\ Len(cal_out[k].desc_extra) = Len(src) - 1
                        /\ \A j \in 2..Len(src) :
                              /\ src[j].how # "start"
                              /\ cal_out[k].desc_extra[j - 1].desc
                                   = title(cal_tmp[src[j].i].desc))

\* C9 witness: the merge pass of three events is over: the second was folded
\* into the first, the third flushed them, and the end of the calendar
\* flushed the third
C9_Witness ==
    /\ pc = "done"
    /\ Len(cal_tmp) = 3
    /\ Len(cal_out) = 2
    /\ Len(out_src[1]) = 2
    /\ Len(out_src[2]) = 1

\* C10 (as stated): the accumulator and every written event have START no
\* later than the last covered date, END after START, and no day tag below 1.
C10_DateBounds ==
    /\ prev_event # <<>> /\ pc = "merge"
          => /\ Ordinal(Acc.start) <= Ordinal(get_last_date_str(variant, Acc))
             /\ \A i \in 1..Len(Acc.summary) :
                   Acc.summary[i].k = "d" => Acc.summary[i].n >= 1
    /\ \A k \in 1..Len(cal_out) :
          /\ Ordinal(cal_out[k].start) < Ordinal(cal_out[k].end)
          /\ \A i \in 1..Len(cal_out[k].summary) :
                cal_out[k].summary[i].k = "d" => cal_out[k].summary[i].n >= 1

\* the terminator is the last key of the event, and is there once
TerminatorLast(event) ==
    /\ event.order # <<>>
    /\ event.order[Len(event.order)] = END
    /\ Cardinality({i \in 1..Len(event.order) : event.order[i] = END}) = 1

\* C11: END is the last key of every event as it is staged, of the
\* accumulator after every normalization, add-time and date-extend, and of
\* every event as it is written: the "END is not at the end" test of
\* print_dict never finds a key after it.
C11_TerminatorLast ==
    /\ \A k \in 1..Len(owners) : TerminatorLast(owners[k])
    /\ \A k \in 1..Len(cal_tmp) : TerminatorLast(cal_tmp[k])
    /\ (prev_event # <<>> => TerminatorLast(Acc))
    /\ \A k \in 1..Len(cal_out) : TerminatorLast(cal_out[k])

\* C11 witness: an event that arrived without DTEND has been written after an
\* add-time and a date-extend merge, with DTEND added and the notes flattened,
\* and END is its last key
C11_Witness ==
    /\ pc = "done"
    /\ Len(cal_out) = 1
    /\ Len(out_src[1]) = 3
    /\ out_src[1][2].how = "time"
    /\ out_src[1][3].how = "date"
    /\ cal_in[1].end = 0
    /\ Len(cal_out[1].desc_extra) = 2
    /\ cal_out[1].order = <<"BEGIN", DATE_START, SUMMARY, DESC, DATE_END, END>>

\* C12 (as stated): once an END:x line with x other than VEVENT has been read
\* inside an event block the run has stopped: from then on no event is staged
\* or indexed, nothing is written to the scratch file, no event becomes the
\* accumulator and none is written to the output.
C12_UnexpectedEndAborts ==
    [][stage_err # "none"
       => /\ owners' = owners
          /\ cal_tmp' = cal_tmp
          /\ prev_event' = prev_event
          /\ cal_out' = cal_out]_vars

Stripped(text) == Remove(text, {i \in 1..Len(text) : text[i].k \in {"h", "d"}})

\* C14 (as stated): in both variants, when the DESCRIPTIONs of the accumulator
\* and of the incoming event are equal once their duration tags are removed,
\* the merge decision goes by the dates alone (add-time on the same date,
\* date-extend on the next eligible date of a full-day accumulator); when
\* they differ, by more than the case of their letters, the accumulator is
\* written and replaced.
C14_DescIgnoresTag ==
    [][(InMerge /\ prev_event # <<>>)
       => /\ Stripped(Acc.desc) = Stripped(Incoming.desc)
             => /\ is_same_date(variant, Acc, Incoming) => FoldStep("time")
                /\ (/\ ~is_same_date(variant, Acc, Incoming)
                    /\ CanExtend(variant, Acc, Incoming)) => FoldStep("date")
          /\ lower(Stripped(Acc.desc)) # lower(Stripped(Incoming.desc))
             => FlushStep]_vars

\* the hour-equivalents of an event as its SUMMARY states them now: the first
\* hour tag (at least 1), else 8 per day of the first day tag, else 4 after a
\* half-day marker, else 8
Duration(event) ==
    LET hours == {i \in 1..Len(event.summary) : IsHourTag(event.summary[i])}
        days == {i \in 1..Len(event.summary) : IsDayTag(event.summary[i])}
    IN  IF hours # {}
        THEN Max(1, event.summary[CHOOSE i \in hours : \A j \in hours : i <= j].n)
        ELSE IF days # {}
        THEN 8 * Max(1, event.summary[CHOOSE i \in days : \A j \in days : i <= j].n)
        ELSE IF HasHalfDayMarker(event.summary) THEN 4
        ELSE 8

\* the incoming event starts on the next eligible date after the accumulator
NextEligible(last, start) ==
    Ordinal(start) = Ordinal(last) + 1 \/ WeekendBridge(last, start)

\* C15: a date-extend merge happens only when the accumulator's duration is at
\* least 7 hour-equivalents and, in the merge variant, the incoming event's
\* too; in the merge variant an incoming event of less than 7 hours with the
\* accumulator's description, on the next eligible date, is not folded in:
\* the accumulator is written and the event starts a new one.
C15_FullDayGuard ==
    [][(InMerge /\ prev_event # <<>>)
       => /\ FoldStep("date")
             => /\ Duration(Acc) >= 7
                /\ variant = "merger" => Duration(Incoming) >= 7
          /\ (/\ variant = "merger"
              /\ Duration(Incoming) < 7
              /\ is_same_desc(variant, Acc, Incoming)
              /\ NextEligible(get_last_date_str(variant, Acc), Incoming.start))
             => FlushStep]_vars

\* C15 witness: the merge variant has written a whole-day event and the (3h)
\* event of the next day, of the same description, as two events
C15_Witness ==
    /\ pc = "done"
    /\ variant = "merger"
    /\ Len(cal_tmp) = 2
    /\ is_same_desc(variant, cal_tmp[1], cal_tmp[2])
    /\ Duration(cal_tmp[1]) >= 7
    /\ Duration(cal_tmp[2]) = 3
    /\ Ordinal(cal_tmp[2].start) = Ordinal(cal_tmp[1].start) + 1
    /\ Len(cal_out) = 2

\* what a note says of the merge that made it
NoteKind(how) == IF how = "time" THEN "add time" ELSE "add date"

\* C16: every add-time or date-extend merge appends exactly one note, with
\* the incoming event's DESCRIPTION, to the accumulator's EXTRA list and
\* leaves the earlier notes as they are; a written event into which n events
\* were folded carries exactly those n notes, in fold order, in its
\* DESCRIPTION; and no written event has an EXTRA key or list.
C16_AuditTrail ==
    [][/\ \A how \in {"time", "date"} :
             FoldStep(how)
             => /\ Len(prev_event'[1].extra) = Len(Acc.extra) + 1
                /\ SubSeq(prev_event'[1].extra, 1, Len(Acc.extra)) = Acc.extra
                /\ prev_event'[1].extra[Len(Acc.extra) + 1].what = NoteKind(how)
                /\ prev_event'[1].extra[Len(Acc.extra) + 1].desc = Incoming.desc
                /\ HasKey(prev_event'[1], EXTRA)
       /\ \A k \in 1..Len(cal_out') :
             /\ ~HasKey(cal_out'[k], EXTRA)
             /\ cal_out'[k].extra = <<>>
             /\ Len(cal_out'[k].desc_extra) = Len(out_src'[k]) - 1
             /\ \A j \in 2..Len(out_src'[k]) :
                   /\ cal_out'[k].desc_extra[j - 1].what
                        = NoteKind(out_src'[k][j].how)
                   /\ cal_out'[k].desc_extra[j - 1].desc
                        = title(cal_tmp[out_src'[k][j].i].desc)]_vars

\* C16 witness: an event into which two events were folded, the first by
\* add-time and the second by date-extend, has been written with the two
\* notes in that order
C16_Witness ==
    /\ Len(cal_out) >= 1
    /\ Len(out_src[1]) = 3
    /\ cal_out[1].desc_extra[1].what = "add time"
    /\ cal_out[1].desc_extra[2].what = "add date"
    /\ cal_out[1].desc_extra[1].desc = title(cal_tmp[2].desc)
    /\ cal_out[1].desc_extra[2].desc = title(cal_tmp[3].desc)

\* the whole hours from the first instant of an event to the second
Elapsed(raw) ==
    (Ordinal(raw.orig_end.date) - Ordinal(raw.orig_start.date)) * 24
    + raw.orig_end.hour - raw.orig_start.hour

\* C17 (as stated): in the merge variant an event that came with instants d
\* days and h hours apart, h from 7 to 23, is staged with the day tag
\* ((d+1)d) on its SUMMARY and on its DESCRIPTION; hours above 9 add nothing
\* more to the day count.
C17_HourToDay ==
    \A k \in 1..Len(owners) :
        (/\ variant = "merger"
         /\ HasKey(cal_in[k], ORIG_DATE_START)
         /\ HasKey(cal_in[k], ORIG_DATE_END)
         /\ Elapsed(cal_in[k]) % 24 >= 7)
        => /\ MatchedTags(owners[k].summary)
                = {DayTag((Elapsed(cal_in[k]) \div 24) + 1)}
           /\ MatchedTags(owners[k].desc)
                = {DayTag((Elapsed(cal_in[k]) \div 24) + 1)}

\* C18 (as stated): when the staged calendar holds no event, the step of the
\* merge pass at END:VCALENDAR ends the pass without error and with nothing
\* written.
C18_EmptyStream ==
    [][(pc = "merge" /\ Len(cal_tmp) = 0)
       => (pc' = "done" /\ cal_out' = <<>>)]_vars

\* two staged events have the same owner and the same category
SameGroup(a, b) ==
    /\ get_owner(a.summary) = get_owner(b.summary)
    /\ get_category(a.summary) = get_category(b.summary)

\* the staged events that went into one event all have the owner and the
\* category of the first of them
OneGroup(src) ==
    \A j \in 1..Len(src) : SameGroup(cal_tmp[src[1].i], cal_tmp[src[j].i])

\* C19 (as stated): the events folded into the accumulator, and into every
\* written event, all have one owner and one category.
C19_WithinGroup ==
    /\ (prev_src # <<>> => OneGroup(prev_src))
    /\ \A k \in 1..Len(out_src) : OneGroup(out_src[k])

\* the last day an event covers, its END being the day after it
LastCovered(event) ==
    IF HasKey(event, DATE_END) THEN date_prev_day_str(event.end) ELSE event.start

\* the written event covers every day of the staged event
Covers(written, event) ==
    \A d \in Ordinal(event.start)..Ordinal(LastCovered(event)) :
        Ordinal(written.start) <= d /\ d < Ordinal(written.end)

\* C20 (as stated): every written event covers every day of each staged event
\* that was written as it or folded into it, and no add-time or date-extend
\* merge moves the END the accumulator would be written with to an earlier
\* date.
C20_CoveragePreserved ==
    [][/\ \A k \in 1..Len(cal_out') :
             \A j \in 1..Len(out_src'[k]) :
                 Covers(cal_out'[k], cal_tmp[out_src'[k][j].i])
       /\ \A how \in {"time", "date"} :
             FoldStep(how)
             => Ordinal(EmittedEnd(variant, prev_event'[1]))
                  >= Ordinal(EmittedEnd(variant, Acc))]_vars
====
